---- MODULE Spec2Model ----
(***************************************************************************)
(* A model of Staff, a scraping client for The StoryGraph.                 *)
(*                                                                         *)
(*   src/staff/api.py     StoryGraphAPI (session, CSRF state, form and     *)
(*                        pseudo-verb submission, pagination, login) and   *)
(*                        Element                                          *)
(*   src/staff/models.py  Book, Read, Entry, DateAccuracy                  *)
(*   src/staff/client.py  StoryGraph                                       *)
(*   src/staff.py         the single-file script, an earlier draft of the  *)
(*                        same classes (its csrf() differs)                *)
(*                                                                         *)
(* The web site is the environment: every GET or POST is answered by a     *)
(* page drawn from a bounded set of page shapes.  A page is reduced to the *)
(* markup the client looks at (meta tags, forms, links, containers).       *)
(***************************************************************************)
EXTENDS Integers, Sequences, FiniteSets, TLC

VARIABLES
    variant,      \* "package" (src/staff/api.py) or "script" (src/staff.py)
    csrf_param,   \* StoryGraphAPI._csrf_param
    csrf_token,   \* StoryGraphAPI._csrf_token
    username,     \* StoryGraphAPI.username
    spent,        \* history: tokens csrf() returned and html() has not harvested since
    lastCall,     \* the last operation called: its arguments, result and requests
    given,        \* the inputs of the call under study, drawn when the run starts
    srv,          \* the listing pages the site serves, by path
    gen,          \* the paged() generators: position, locals and what they did
    book,         \* a Book: its fragment (_tag) and its cached properties
    site,         \* what the site holds about that book
    prevCall,     \* history: the call before the last one, in short
    entry         \* an Entry: its cached edit page, and what the site holds of it

apiVars == <<variant, csrf_param, csrf_token, username, spent, lastCall>>

pagedVars == <<srv, gen>>

bookVars == <<book, site, prevCall, entry>>

vars == <<apiVars, given, pagedVars, bookVars>>

----------------------------------------------------------------------------
(* Python values *)

\* Python's None
None == "None"

\* bool(x) of a str | None
Truthy(x) == x # None /\ x # ""

\* An empty dict
EmptyDict == <<>>

Overwrite(d, k, v) == (k :> v) @@ d

\* d.setdefault(k, v) on a dict held as a function
SetDefault(d, k, v) == IF k \in DOMAIN d THEN d ELSE d @@ (k :> v)

----------------------------------------------------------------------------
(* Pages: the meta tags every page may carry *)

\* content of <meta name="csrf-param">, when the tag is there
ParamValues == {"authenticity_token", "csrf"}

\* The two meta tags of a page; None: the page has no such tag
Metas == [param : ParamValues \cup {None}, token : {"", "t1", "t2"} \cup {None}]

NoMeta == [param |-> None, token |-> None]

----------------------------------------------------------------------------
(* StoryGraphAPI.  A call runs on a context c: the CSRF state, the requests *)
(* sent so far during the call and the token events of the call.           *)

Context == [variant |-> variant, param |-> csrf_param, token |-> csrf_token,
            sent |-> <<>>, events |-> <<>>]

\* a call's outcome: the context it leaves, its return value, the error raised
Return(c, v) == [ctx |-> c, ret |-> v, err |-> None]

Raise(c, e) == [ctx |-> c, ret |-> None, err |-> e]

GetRequest(path) == [verb |-> "GET", path |-> path, data |-> EmptyDict, header |-> None]

PostRequest(path, data, header) ==
    [verb |-> "POST", path |-> path, data |-> data, header |-> header]

\* StoryGraphAPI.get: one GET request
Get(c, path) == [c EXCEPT !.sent = Append(@, GetRequest(path))]

HtmlResets(c, page) ==
    [c EXCEPT !.param = page.param,
              !.token = page.token,
              !.events = IF page.token # None
                            THEN Append(@, [e |-> "parse", token |-> page.token])
                            ELSE @]

\* StoryGraphAPI.html: parse a response, harvesting the CSRF meta tags
Html(c, page) ==
    [c EXCEPT !.param = IF page.param # None THEN page.param ELSE @,
              !.token = IF page.token # None THEN page.token ELSE @,
              !.events = IF page.token # None
                            THEN Append(@, [e |-> "parse", token |-> page.token])
                            ELSE @]

CsrfFetchUnparsed(c, home) == Get(c, "/")

\* csrf(), its first statement: the package parses the home page, the script
\* only requests it
CsrfFetch(c, home) ==
    IF c.variant = "package" THEN Html(Get(c, "/"), home) ELSE Get(c, "/")

CsrfKeepsToken(c, home) ==
    LET c1 == IF ~Truthy(c.token) THEN CsrfFetch(c, home) ELSE c
    IN  IF ~Truthy(c1.token)
           THEN Raise(c1, "No CSRF token")
           ELSE Return([c1 EXCEPT !.events = Append(@, [e |-> "ret", token |-> c1.token])],
                       c1.token)

\* StoryGraphAPI.csrf
Csrf(c, home) ==
    LET c1 == IF ~Truthy(c.token) THEN CsrfFetch(c, home) ELSE c
    IN  IF ~Truthy(c1.token)
           THEN Raise(c1, "No CSRF token")
           ELSE Return([c1 EXCEPT !.token = None,
                                  !.events = Append(@, [e |-> "ret", token |-> c1.token])],
                       c1.token)

\* StoryGraphAPI.post; the return value is the request, standing for its response
Post(c, path, form, csrf, home) ==
    LET data == IF form # EmptyDict THEN form ELSE EmptyDict
        t    == Csrf(c, home)
    IN  IF csrf
           THEN IF t.err # None
                   THEN t
                   ELSE Return([t.ctx EXCEPT !.sent = Append(@, PostRequest(path, data, t.ret))],
                               PostRequest(path, data, t.ret))
           ELSE Return([c EXCEPT !.sent = Append(@, PostRequest(path, data, None))],
                       PostRequest(path, data, None))

\* StoryGraphAPI.method: the dict display evaluates the key self._csrf_param
\* before the value self.csrf()
Method(c, link, home) ==
    LET key == c.param
        t   == Csrf(c, home)
        data == (key :> t.ret) @@ ("_method" :> link.method)
    IN  IF t.err # None THEN t ELSE Post(t.ctx, link.href, data, FALSE, home)

----------------------------------------------------------------------------
(* Forms *)

\* A field of a form: an input, select or button with a name attribute.
\* value: the value attribute (input, button) or the value attribute of the
\* selected option (select); Absent: no such attribute; NoOption: a select
\* without a selected option.
Absent == "Absent"

NoOption == "NoOption"

FieldTypes == <<"input", "select", "button">>

\* field.get("value", "") and option.get("value", "")
ValueOf(field) == IF field.value = Absent THEN "" ELSE field.value

\* the fields form() reads in one pass of its inner loop: those of one tag
\* type, in document order, a select without a selected option skipped
RECURSIVE HarvestType(_, _, _, _)
HarvestType(fields, type, i, data) ==
    IF i > Len(fields) THEN data
    ELSE LET f == fields[i]
         IN  IF f.type # type \/ (type = "select" /\ f.value = NoOption)
                THEN HarvestType(fields, type, i + 1, data)
                ELSE HarvestType(fields, type, i + 1, SetDefault(data, f.name, ValueOf(f)))

\* the loops of form(): inputs, then selects, then buttons
Harvest(fields, data) ==
    HarvestType(fields, "button", 1,
        HarvestType(fields, "select", 1,
            HarvestType(fields, "input", 1, data)))

\* StoryGraphAPI.form
Form(c, form, data, csrf, home) ==
    Post(c, form.action, Harvest(form.fields, data), csrf, home)

----------------------------------------------------------------------------
(* The token history *)

\* the tokens spent after the events of a call
RECURSIVE SpentAfter(_, _)
SpentAfter(s, events) ==
    IF events = <<>> THEN s
    ELSE LET ev == Head(events)
         IN  SpentAfter(IF ev.e = "parse" THEN s \ {ev.token} ELSE s \cup {ev.token},
                        Tail(events))

\* the token of the page parsed last among those that carried a csrf-token
\* meta tag, p being that token before the events
RECURSIVE LastParsed(_, _)
LastParsed(p, events) ==
    IF events = <<>> THEN p
    ELSE LastParsed(IF Head(events).e = "parse" THEN Head(events).token ELSE p, Tail(events))

\* the call's result r becomes the state
Finish(op, args, r) ==
    /\ csrf_param' = r.ctx.param
    /\ csrf_token' = r.ctx.token
    /\ spent' = SpentAfter(spent, r.ctx.events)
    /\ lastCall' = [op |-> op, args |-> args, ret |-> r.ret, err |-> r.err,
                    sent |-> r.ctx.sent, events |-> r.ctx.events,
                    before |-> [param |-> csrf_param, token |-> csrf_token,
                                spent |-> spent, username |-> username,
                                parsed |-> LastParsed(lastCall.before.parsed,
                                                      lastCall.events)]]

----------------------------------------------------------------------------
(* The operations of StoryGraphAPI as actions *)

\* a form with one hidden input, as the site renders for its buttons
PlainForm == [action |-> "/submit",
              fields |-> <<[type |-> "input", name |-> "a", value |-> "x"]>>]

\* html(get(path)): any fetch of a page that is parsed
ApiHtml ==
    /\ \E page \in Metas :
          Finish("html", [home |-> page],
                 Return(Html(Get(Context, "/books/b1"), page), None))
    /\ UNCHANGED <<variant, username, given, pagedVars, bookVars>>

ApiCsrf ==
    /\ \E home \in Metas :
          Finish("csrf", [home |-> home], Csrf(Context, home))
    /\ UNCHANGED <<variant, username, given, pagedVars, bookVars>>

ApiPost ==
    /\ \E home \in Metas, csrf \in BOOLEAN :
          Finish("post", [home |-> home, csrf |-> csrf],
                 Post(Context, "/submit", EmptyDict, csrf, home))
    /\ UNCHANGED <<variant, username, given, pagedVars, bookVars>>

ApiForm ==
    /\ \E home \in Metas, csrf \in BOOLEAN :
          Finish("form", [home |-> home, csrf |-> csrf],
                 Form(Context, PlainForm, EmptyDict, csrf, home))
    /\ UNCHANGED <<variant, username, given, pagedVars, bookVars>>

ApiMethod ==
    /\ \E home \in Metas, link \in [method : {"delete", "post"}, href : {"/owned_books/b1"}] :
          Finish("method", [home |-> home, link |-> link],
                 Method(Context, link, home))
    /\ UNCHANGED <<variant, username, given, pagedVars, bookVars>>

NoCall == [op |-> "init", args |-> <<>>, ret |-> None, err |-> None,
           sent |-> <<>>, events |-> <<>>,
           before |-> [param |-> None, token |-> None, spent |-> {},
                       username |-> None, parsed |-> None]]

\* StoryGraphAPI.__init__: the CSRF state
CsrfInit ==
    /\ variant \in {"package", "script"}
    /\ csrf_param = None
    /\ csrf_token = None
    /\ spent = {}
    /\ lastCall = NoCall

\* StoryGraphAPI.__init__
ApiInit == CsrfInit /\ username = None

\* no paged() generator has been created
Gens == {1, 2}

NoGens == [g \in Gens |-> [pc |-> "off", path |-> 0, cur |-> 0, idx |-> 0,
                           yielded |-> <<>>, fetched |-> <<>>]]

\* no listing is being read
NoPaged == srv = <<>> /\ gen = NoGens

\* no Book has been created
NoBook == book = None /\ site = None /\ prevCall = None /\ entry = None

Init == ApiInit /\ given = None /\ NoPaged /\ NoBook

Next == ApiHtml \/ ApiCsrf \/ ApiPost \/ ApiForm \/ ApiMethod

Spec == Init /\ [][Next]_vars

----------------------------------------------------------------------------
(* form() on the forms of a bounded shape *)

Fields == { f \in [type : {"input", "select", "button"}, name : {"a", "b"},
                   value : {Absent, NoOption, "x", "y"}] :
              f.value = NoOption => f.type = "select" }

\* bound: the number of named fields of a form
MaxFields == 2

Forms == [action : {"/submit"},
          fields : UNION { [1..n -> Fields] : n \in 0..MaxFields }]

FormInit ==
    /\ ApiInit
    /\ given \in [form : Forms, data : UNION { [ks -> {"mine"}] : ks \in SUBSET {"a", "b"} }, csrf : BOOLEAN]
    /\ NoPaged
    /\ NoBook

FormCall ==
    /\ lastCall.op = "init"
    /\ \E home \in {NoMeta, [param |-> "authenticity_token", token |-> "t1"]} :
          Finish("form", [home |-> home],
                 Form(Context, given.form, given.data, given.csrf, home))
    /\ UNCHANGED <<variant, username, given, pagedVars, bookVars>>

SpecForm == FormInit /\ [][FormCall]_vars

----------------------------------------------------------------------------
(* Claims about the CSRF state and the submissions *)

\* the requests of the last call that are POSTs
Posts(call) == SelectSeq(call.sent, LAMBDA r : r.verb = "POST")

\* the tokens the csrf() calls made during the last call returned, in order
Returned(call) == SelectSeq(call.events, LAMBDA ev : ev.e = "ret")

\* every token returned during the events was not spent when it was returned
RECURSIVE FreshReturns(_, _)
FreshReturns(s, events) ==
    IF events = <<>> THEN TRUE
    ELSE LET ev == Head(events)
         IN  /\ ev.e = "ret" => ev.token \notin s
             /\ FreshReturns(SpentAfter(s, <<ev>>), Tail(events))

\* the operations of the API alone end with the token they took cleared
ApiOps == {"csrf", "post", "form", "method"}

\* C1: CSRF tokens are single-use.  Over any sequence of html(), csrf(),
\* post(), form() and method() calls, a csrf() that returns leaves no token
\* stored, and a token value csrf() returned is not returned again unless
\* html() parsed a page carrying that value in between.
C1_TokensSingleUse ==
    /\ FreshReturns(lastCall.before.spent, lastCall.events)
    /\ (lastCall.op \in ApiOps /\ Returned(lastCall) # <<>>) => csrf_token = None

\* C1 witness: csrf() returns t1 a second time, the home page having carried
\* it again, and leaves no token stored.
C1_Witness ==
    /\ lastCall.op = "csrf"
    /\ lastCall.ret = "t1"
    /\ "t1" \in lastCall.before.spent
    /\ csrf_token = None

\* a call that needs a token: csrf() itself, method(), post() and form() with csrf
NeedsToken(call) ==
    \/ call.op \in {"csrf", "method"}
    \/ call.op \in {"post", "form"} /\ call.args.csrf

\* the call was made on the package with no token stored
PackageNoToken(call) ==
    /\ variant = "package"
    /\ NeedsToken(call)
    /\ ~Truthy(call.before.token)

\* the call fetched the home page first, and then csrf() returned the token tok
\* and left none stored
FetchedAndReturned(call, tok) ==
    /\ call.sent # <<>> /\ Head(call.sent) = GetRequest("/")
    /\ call.err = None
    /\ Returned(call) = <<[e |-> "ret", token |-> tok]>>
    /\ call.op = "csrf" => call.ret = tok
    /\ csrf_token = None

\* the call fetched the home page, raised and sent nothing else
FetchedAndRaised(call) ==
    /\ call.sent = <<GetRequest("/")>>
    /\ call.err = "No CSRF token"
    /\ Returned(call) = <<>>

\* C2 as stated: in the package, csrf() with no token stored fetches and
\* parses "/"; when the page carries a csrf-token meta tag it returns that
\* token, when it carries none it raises "No CSRF token" and the request that
\* needed the token is not sent.
C2_AnyTagReturned ==
    PackageNoToken(lastCall) =>
        IF lastCall.args.home.token # None
           THEN FetchedAndReturned(lastCall, lastCall.args.home.token)
           ELSE FetchedAndRaised(lastCall)

\* C2 amended: in the package, csrf() with no token stored fetches and parses
\* "/"; when the page carries a csrf-token meta tag with a non-empty content it
\* returns that token and leaves none stored; when the page carries no such
\* tag, or one with an empty content, it raises "No CSRF token" and the
\* request that needed the token is not sent.
C2_NonEmptyTagReturned ==
    PackageNoToken(lastCall) =>
        IF Truthy(lastCall.args.home.token)
           THEN FetchedAndReturned(lastCall, lastCall.args.home.token)
           ELSE FetchedAndRaised(lastCall)

\* C2 witness: post(csrf=True) with no token stored takes the home page's token.
C2_Witness ==
    /\ PackageNoToken(lastCall)
    /\ lastCall.op = "post"
    /\ lastCall.before.token = None
    /\ lastCall.args.home.token = "t2"
    /\ Len(lastCall.sent) = 2
    /\ lastCall.sent[2].header = "t2"

\* C4 as stated, for the calls of method() that return on a site whose pages
\* name the CSRF parameter: one POST to the link's
\* href, its data the two entries "_method" -> the link's data-method and the
\* site's CSRF parameter name -> the token csrf() returned.
C4_MethodPostsUnderParam ==
    (lastCall.op = "method" /\ lastCall.err = None /\ csrf_param \in ParamValues) =>
        /\ Len(Posts(lastCall)) = 1
        /\ Len(Returned(lastCall)) = 1
        /\ LET post == Posts(lastCall)[1]
           IN  /\ post.path = lastCall.args.link.href
               /\ DOMAIN post.data = {"_method", csrf_param}
               /\ post.data["_method"] = lastCall.args.link.method
               /\ post.data[csrf_param] = Returned(lastCall)[1].token

----------------------------------------------------------------------------
(* Claims about form() *)

\* the field contributes a key: every input and button, a select with a
\* selected option
Contributes(f) == f.type # "select" \/ f.value # NoOption

\* the text the field contributes
Contributed(f) == IF f.value = Absent THEN "" ELSE f.value

\* the place of a tag type in the order form() visits the types
TypeRank(type) == CHOOSE k \in 1..3 : FieldTypes[k] = type

\* field i is visited before field j
VisitedBefore(fs, i, j) ==
    \/ TypeRank(fs[i].type) < TypeRank(fs[j].type)
    \/ fs[i].type = fs[j].type /\ i < j

\* field i is the first visited among the contributing fields of its name
FirstOfName(fs, i) ==
    \A j \in DOMAIN fs :
        (j # i /\ Contributes(fs[j]) /\ fs[j].name = fs[i].name) => VisitedBefore(fs, i, j)

\* the POST of the form() call has the caller's entries and the action
CallerWins(post) ==
    /\ post.path = given.form.action
    /\ \A k \in DOMAIN given.data : k \in DOMAIN post.data /\ post.data[k] = given.data[k]
    /\ DOMAIN post.data =
          DOMAIN given.data \cup
          { given.form.fields[i].name :
               i \in { j \in DOMAIN given.form.fields : Contributes(given.form.fields[j]) } }

FormPosted == lastCall.op = "form" /\ Posts(lastCall) # <<>>

\* C3 as stated: the POST goes to the form's action with the caller's entries,
\* plus, for every other named input and button its value attribute ("" when
\* absent) and for every named select its selected option's value; a select
\* with no selected option adds no key.
C3_EveryFieldPosted ==
    FormPosted =>
        LET post == Posts(lastCall)[1]
            fs   == given.form.fields
        IN  /\ Len(Posts(lastCall)) = 1
            /\ CallerWins(post)
            /\ \A i \in DOMAIN fs :
                  (Contributes(fs[i]) /\ fs[i].name \notin DOMAIN given.data) =>
                      post.data[fs[i].name] = Contributed(fs[i])

\* C3 amended: as stated, but of the fields that share a name only the first
\* one visited is posted, form() visiting all inputs, then all selects, then
\* all buttons, each kind in document order.
C3_FirstFieldPosted ==
    FormPosted =>
        LET post == Posts(lastCall)[1]
            fs   == given.form.fields
        IN  /\ Len(Posts(lastCall)) = 1
            /\ CallerWins(post)
            /\ \A i \in DOMAIN fs :
                  (Contributes(fs[i]) /\ fs[i].name \notin DOMAIN given.data
                     /\ FirstOfName(fs, i)) =>
                      post.data[fs[i].name] = Contributed(fs[i])

\* C3 witness: the caller gives "a"; the form has a select "b" that comes
\* first in the document and an input "b", whose value is the one posted.
C3_Witness ==
    /\ FormPosted
    /\ DOMAIN given.data = {"a"}
    /\ Len(given.form.fields) = 2
    /\ given.form.fields[1] = [type |-> "select", name |-> "b", value |-> "x"]
    /\ given.form.fields[2] = [type |-> "input", name |-> "b", value |-> Absent]
    /\ Posts(lastCall)[1].data = [a |-> "mine", b |-> ""]

----------------------------------------------------------------------------
(* paged(): a generator over the pages of a listing *)

\* bound: the listing pages of the site, the paths 1..NumPages
NumPages == 2

\* bound: the div children a page holds
MaxItems == 2

\* a listing page: whether an element of the container class is there, how
\* many div tags the page holds for it, and the href of the element with id
\* "next_link" (0: no such element)
Listings == [container : BOOLEAN, items : 0..MaxItems, next : 0..NumPages]

\* the meta tags of the listing pages
ListingMetas == {NoMeta, [param |-> "authenticity_token", token |-> "t1"]}

\* bound on the pages one generator fetches, for a site whose next links loop
MaxFetches == NumPages + 1

\* model(self, tag) for the i-th div child of the container of a page
Item(page, i) == [page |-> page, tag |-> i]

\* StoryGraphAPI.paged called: a generator about to run its first statement
NewGen(path) == [pc |-> "fetch", path |-> path, cur |-> 0, idx |-> 0,
                 yielded |-> <<>>, fetched |-> <<>>]

\* the generator with the page fetched before it looked for the container
PagedFetchedBlind(g0, page) ==
    [g0 EXCEPT !.pc = "items", !.cur = g0.path, !.idx = 1,
               !.fetched = Append(@, g0.path)]

\* paged(), from the top of the loop: the page is fetched; without the
\* container the generator ends, else the loop over its div children starts
PagedFetched(g0, page) ==
    IF ~page.container
       THEN [g0 EXCEPT !.pc = "done", !.fetched = Append(@, g0.path)]
       ELSE [g0 EXCEPT !.pc = "items", !.cur = g0.path, !.idx = 1,
                       !.fetched = Append(@, g0.path)]

PagedFetch(g) ==
    /\ gen[g].pc = "fetch"
    /\ Len(gen[g].fetched) < MaxFetches
    /\ \E meta \in ListingMetas :
          Finish("paged", [home |-> meta],
                 Return(Html(Get(Context, gen[g].path), meta), None))
    /\ gen' = [gen EXCEPT ![g] = PagedFetched(@, srv[gen[g].path])]
    /\ UNCHANGED <<variant, username, given, srv, bookVars>>

\* the loop over the div children: the next one is yielded
PagedYield(g) ==
    /\ gen[g].pc = "items"
    /\ gen[g].idx <= srv[gen[g].cur].items
    /\ gen' = [gen EXCEPT ![g].yielded = Append(@, Item(gen[g].cur, gen[g].idx)),
                          ![g].idx = @ + 1]
    /\ UNCHANGED <<apiVars, given, srv, bookVars>>

\* the generator that ends after its first page
PagedAfterItemsEnds(g0, page) == [g0 EXCEPT !.pc = "done"]

\* a generator that looks for the next link in the page the session fetched
\* last, whichever generator fetched it
PagedAfterItemsOfLast(g0, page) ==
    LET last == srv[lastCall.sent[1].path]
    IN  IF last.next = 0
           THEN [g0 EXCEPT !.pc = "done"]
           ELSE [g0 EXCEPT !.pc = "fetch", !.path = last.next]

\* after the loop: the next link is followed, or the generator ends
PagedAfterItems(g0, page) ==
    IF page.next = 0
       THEN [g0 EXCEPT !.pc = "done"]
       ELSE [g0 EXCEPT !.pc = "fetch", !.path = page.next]

PagedMore(g) ==
    /\ gen[g].pc = "items"
    /\ gen[g].idx > srv[gen[g].cur].items
    /\ gen' = [gen EXCEPT ![g] = PagedAfterItems(@, srv[gen[g].cur])]
    /\ UNCHANGED <<apiVars, given, srv, bookVars>>

\* one generator, created on path 1, and a site that does not change
PagedInit ==
    /\ ApiInit
    /\ given = None
    /\ srv \in [1..NumPages -> Listings]
    /\ gen = [NoGens EXCEPT ![1] = NewGen(1)]
    /\ NoBook

PagedNext == \E g \in Gens : PagedFetch(g) \/ PagedYield(g) \/ PagedMore(g)

SpecPaged == PagedInit /\ [][PagedNext]_vars

\* the generator is consumed to exhaustion: its consumer keeps calling next()
SpecPagedFair == SpecPaged /\ WF_vars(PagedNext)

----------------------------------------------------------------------------
(* Claims about paged() *)

IsPrefix(s, t) == Len(s) <= Len(t) /\ SubSeq(t, 1, Len(s)) = s

\* the model objects of a page's div children, in document order
ItemsOf(p) == [i \in 1..srv[p].items |-> Item(p, i)]

\* what a walk of at most n pages from path p is to yield: nothing from a page
\* without the container, and nothing after it or after a page without next link
RECURSIVE Expected(_, _)
Expected(p, n) ==
    IF n = 0 \/ ~srv[p].container THEN <<>>
    ELSE ItemsOf(p) \o (IF srv[p].next = 0 THEN <<>> ELSE Expected(srv[p].next, n - 1))

\* C5: paged() yields one model object per div child of the container of each
\* page of the next_link chain, in page order and document order, none
\* skipped or repeated; it ends after the first page without a next link, and
\* ends without yielding anything from a page whose container is missing,
\* whatever next link that page has.
C5_PagedYieldsChain ==
    LET g == gen[1]
    IN  /\ IsPrefix(g.yielded, Expected(1, MaxFetches))
        /\ g.pc = "done" =>
              /\ g.yielded = Expected(1, MaxFetches)
              /\ LET last == srv[g.fetched[Len(g.fetched)]]
                 IN  ~last.container \/ last.next = 0

\* C5 witness: page 1 has two items and links to page 2, which has div tags
\* and a next link but no container: the generator ended with page 1's items.
C5_Witness ==
    /\ gen[1].pc = "done"
    /\ gen[1].fetched = <<1, 2>>
    /\ srv[1].items = 2
    /\ ~srv[2].container /\ srv[2].items > 0 /\ srv[2].next # 0
    /\ gen[1].yielded = <<Item(1, 1), Item(1, 2)>>

\* the pages of the next_link chain from p, at most n of them
RECURSIVE Chain(_, _)
Chain(p, n) ==
    IF n = 0 THEN <<>>
    ELSE <<p>> \o (IF srv[p].next = 0 THEN <<>> ELSE Chain(srv[p].next, n - 1))

\* the next_link chain from path 1 is finite: it ends within NumPages pages
ChainFinite == Len(Chain(1, NumPages + 1)) <= NumPages

\* the chain from p up to and including its first page without the container
RECURSIVE ChainToStop(_, _)
ChainToStop(p, n) ==
    IF n = 0 THEN <<>>
    ELSE <<p>> \o (IF srv[p].next = 0 \/ ~srv[p].container THEN <<>>
                   ELSE ChainToStop(srv[p].next, n - 1))

\* the items of the first n pages fetched
RECURSIVE ItemsOfFetched(_, _)
ItemsOfFetched(fetched, n) ==
    IF n = 0 THEN <<>> ELSE ItemsOfFetched(fetched, n - 1) \o ItemsOf(fetched[n])

\* a page is fetched only after every item of the page before it was yielded
FetchedInTurn(g) ==
    g.fetched # <<>> => IsPrefix(ItemsOfFetched(g.fetched, Len(g.fetched) - 1), g.yielded)

\* C6 as stated, its final state: on a site whose next_link chain is finite, a
\* generator that has finished has fetched each page of the chain exactly once.
C6_WholeChainFetched ==
    (ChainFinite /\ gen[1].pc = "done") => gen[1].fetched = Chain(1, NumPages)

\* C6 amended: a paged() generator consumed to exhaustion terminates on every
\* site whose next_link chain from the start path is finite; it has then
\* fetched, once each and in order, the pages of the chain up to and including
\* the first page whose container is missing (the whole chain when no
\* container is missing), and it fetches a page only after every item of the
\* page before it has been yielded.
C6_TerminatesOnFiniteChain ==
    /\ ChainFinite => <>(gen[1].pc = "done")
    /\ [](ChainFinite => IsPrefix(gen[1].fetched, ChainToStop(1, NumPages)))
    /\ []((ChainFinite /\ gen[1].pc = "done") => gen[1].fetched = ChainToStop(1, NumPages))
    /\ []FetchedInTurn(gen[1])

\* C6 witness: a chain of two pages with items, fetched once each to the end.
C6_Witness ==
    /\ ChainFinite
    /\ gen[1].pc = "done"
    /\ gen[1].fetched = <<1, 2>>
    /\ srv[1].container /\ srv[2].container
    /\ Len(gen[1].yielded) = 2 * MaxItems

----------------------------------------------------------------------------
(* login() *)

\* A path or URL is held as the sequence of its segments: "/users/sign_in"
\* is <<"users", "sign_in">>, "/" is <<>>.
SignInPath == <<"users", "sign_in">>

\* resp.url.endswith(target)
EndsWith(url, target) ==
    /\ Len(url) >= Len(target)
    /\ SubSeq(url, Len(url) - Len(target) + 1, Len(url)) = target

\* link["href"].startswith("/profile/")
IsProfileLink(href) == Len(href) >= 2 /\ href[1] = "profile"

\* the index of the first link of the nav that login() takes, 0 when none
RECURSIVE FirstProfileLink(_, _)
FirstProfileLink(nav, i) ==
    IF i > Len(nav) THEN 0
    ELSE IF IsProfileLink(nav[i]) THEN i ELSE FirstProfileLink(nav, i + 1)

\* page.find("form", ...) found nothing
NoForm == [action |-> None, fields |-> <<>>]

SignsInAlways(url) == TRUE

\* login() submits the sign-in form when the response was not redirected away
SignsIn(url) == EndsWith(url, SignInPath)

\* StoryGraphAPI.login; resp: the final URL and page of GET /users/sign_in,
\* after: the page answering the sign-in form.  The result's ret is the
\* username login() leaves.
Login(c, user, email, password, resp, after) ==
    LET c1 == Html(Get(c, SignInPath), resp.page.meta)
        data == [email |-> email, password |-> password]
        r == Form(c1, resp.page.form, data, FALSE, NoMeta)
        c2 == IF SignsIn(resp.url) THEN Html(r.ctx, after.meta) ELSE c1
        page == IF SignsIn(resp.url) THEN after ELSE resp.page
        i == FirstProfileLink(page.nav, 1)
    IN  IF SignsIn(resp.url) /\ resp.page.form = NoForm
           THEN [ctx |-> c1, ret |-> user, err |-> "AttributeError"]
           ELSE IF i = 0
                   THEN [ctx |-> c2, ret |-> user, err |-> "No username"]
                   ELSE [ctx |-> c2, ret |-> page.nav[i][Len(page.nav[i])], err |-> None]

\* bound: the links of a nav
MaxNav == 2

Navs ==
    UNION { [1..n -> { <<"browse">>, <<"profile">>, <<"profile", "alice">>,
                       <<"profile", "bob", "books">> }] : n \in 0..MaxNav }

\* the form of the sign-in page: a hidden token, the two credentials, a button
SignInForm ==
    [action |-> SignInPath,
     fields |-> << [type |-> "input", name |-> "authenticity_token", value |-> "f1"],
                   [type |-> "input", name |-> "email", value |-> Absent],
                   [type |-> "input", name |-> "password", value |-> Absent],
                   [type |-> "button", name |-> "commit", value |-> "Sign in"] >>]

\* the final URL and the page of GET /users/sign_in
SignInResponses ==
    [url : {SignInPath, <<>>, <<"fr", "users", "sign_in">>},
     page : [meta : ListingMetas, form : {NoForm, SignInForm}, nav : Navs]]

\* the page answering the sign-in form
SignedInPages == [meta : {[param |-> "authenticity_token", token |-> "t2"]}, nav : Navs]

\* an API on which login() is called: for the first time, or after a login()
\* that left the username "carol"
LoginInit ==
    /\ CsrfInit
    /\ given \in [resp : SignInResponses, after : SignedInPages, user : {None, "carol"}]
    /\ username = given.user
    /\ NoPaged
    /\ NoBook

LoginCall ==
    /\ lastCall.op = "init"
    /\ LET r == Login(Context, username, "me@example.org", "secret", given.resp, given.after)
       IN  /\ Finish("login", [home |-> NoMeta], r)
           /\ username' = r.ret
    /\ UNCHANGED <<variant, given, pagedVars, bookVars>>

SpecLogin == LoginInit /\ [][LoginCall]_vars

----------------------------------------------------------------------------
(* Claims about login() *)

\* the page login() reads the username from
FinalPage == IF EndsWith(given.resp.url, SignInPath) THEN given.after ELSE given.resp.page

ProfileLinks(nav) == { i \in DOMAIN nav : IsProfileLink(nav[i]) }

----------------------------------------------------------------------------
(* Book.  A text the code searches is held as the sequence of its pieces:  *)
(* the action "/remove-book/b1" is <<"/remove-book/", "b1">>, the status   *)
(* "to read" is <<"to", " ", "read">>.                                      *)

\* Status, by value
StatusNone == <<>>

StatusToRead == <<"to", " ", "read">>

StatusRead == <<"read">>

Statuses == {StatusNone, StatusToRead, <<"currently", " ", "read", "ing">>, StatusRead,
             <<"did", " ", "not", " ", "finish">>}

\* new.value.replace(" ", "-")
Hyphenated(value) == [i \in DOMAIN value |-> IF value[i] = " " THEN "-" ELSE value[i]]

\* needle in text
Contains(text, needle) ==
    \E i \in 0..(Len(text) - Len(needle)) : SubSeq(text, i + 1, i + Len(needle)) = needle

\* the test of the status setter's loop on one form
IsStatusForm(form, new) ==
    IF new = StatusNone
       THEN Contains(form.action, <<"/remove-book/">>)
       ELSE /\ Contains(form.action, <<"/update-status">>)
            /\ Contains(form.action, <<"=">> \o Hyphenated(new))

\* the loop of the status setter: the first form that passes, 0 for its else
RECURSIVE FindStatusForm(_, _, _)
FindStatusForm(forms, new, i) ==
    IF i > Len(forms) THEN 0
    ELSE IF IsStatusForm(forms[i], new) THEN i ELSE FindStatusForm(forms, new, i + 1)

\* Book.path of a fragment with a "/books/" link
BookPath == <<"books", "b1">>

\* a cached_property not yet computed
NotCached == [has |-> FALSE, value |-> None, stamp |-> 0]

\* Book(sg, tag)
NewBook(tag) == [tag |-> tag, metadata |-> NotCached, editions |-> NotCached,
                 reads |-> NotCached]

\* the outcome of a call on a Book: as of a call on the API, and the Book
BookReturn(c, b, v) == [ctx |-> c, ret |-> v, err |-> None, book |-> b]

BookRaise(c, b, e) == [ctx |-> c, ret |-> None, err |-> e, book |-> b]

\* Element.reload on a Book: path, get, html, self._tag = page.main
Reload(c, b, page) ==
    IF ~b.tag.selfLink
       THEN BookRaise(c, b, "No self link")
       ELSE BookReturn(Html(Get(c, BookPath), page.meta), [b EXCEPT !.tag = page.main], None)

SameStatusNever(tag, new) == FALSE

\* the first test of the status setter
SameStatus(tag, new) == tag.status = new

\* Book.status, the setter
SetStatus(c, b, new, page) ==
    LET i == FindStatusForm(b.tag.forms, new, 1)
        r == Form(c, b.tag.forms[i], EmptyDict, FALSE, NoMeta)
    IN  IF SameStatus(b.tag, new) THEN BookReturn(c, b, None)
        ELSE IF i = 0 THEN BookRaise(c, b, "No update status form")
        ELSE Reload(r.ctx, b, page)

\* the links of the two ownership classes
OwnedLink(class) ==
    IF class = "mark-as-owned-link"
       THEN [method |-> "post", href |-> <<"/owned_books", "?book_id", "=", "b1">>]
       ELSE [method |-> "delete", href |-> <<"/owned_books/", "b1">>]

\* Book.owned, the getter
Owned(b) == "remove-from-owned-link" \in b.tag.owned

\* a setter that does not look for the link in the fragment
SetOwnedBlind(c, b, owned, home, page) ==
    LET class == IF owned THEN "mark-as-owned-link" ELSE "remove-from-owned-link"
        r == Method(c, OwnedLink(class), home)
    IN  IF r.err # None THEN BookRaise(r.ctx, b, r.err)
        ELSE Reload(r.ctx, b, page)

\* Book.owned, the setter
SetOwned(c, b, owned, home, page) ==
    LET class == IF owned THEN "mark-as-owned-link" ELSE "remove-from-owned-link"
        r == Method(c, OwnedLink(class), home)
    IN  IF class \notin b.tag.owned THEN BookReturn(c, b, None)
        ELSE IF r.err # None THEN BookRaise(r.ctx, b, r.err)
        ELSE Reload(r.ctx, b, page)

\* the call's result becomes the state
FinishBook(op, args, r) ==
    /\ Finish(op, args, r)
    /\ book' = r.book

----------------------------------------------------------------------------
(* The status setter on the fragments of a bounded shape *)

UpdateAction(status) ==
    <<"/update-status", "?book_id", "=", "b1", "&status", "=">> \o Hyphenated(status)

ProgressAction == <<"/update-progress">>

\* the forms a book fragment may hold, each with one hidden input
BookForms ==
    [action : {<<"/remove-book/", "b1">>, UpdateAction(StatusToRead), UpdateAction(StatusRead),
               ProgressAction},
     fields : { <<[type |-> "input", name |-> "authenticity_token", value |-> v]>> :
                   v \in {"f1", "f2"} }]

\* bound: the forms of a fragment
MaxForms == 2

\* a fragment: when it was fetched (the count of fetches of the book page),
\* whether it holds a link to "/books/...", the text of its status label
\* (StatusNone: no label), its forms, the ownership links it holds, the content
\* of its edition-info block (None: no block)
StatusTags ==
    [stamp : {0}, selfLink : BOOLEAN, status : Statuses,
     forms : UNION { [1..n -> BookForms] : n \in 0..MaxForms },
     owned : {{}}, edition : {None}]

\* the book page the site answers a reload with
ReloadedTag == [stamp |-> 1, selfLink |-> TRUE, status |-> StatusRead, forms |-> <<>>,
                owned |-> {}, edition |-> None]

StatusInit ==
    /\ ApiInit
    /\ given \in [tag : StatusTags, new : Statuses,
                  page : [meta : ListingMetas, main : {ReloadedTag}]]
    /\ NoPaged
    /\ book = NewBook(given.tag)
    /\ site = None
    /\ prevCall = None
    /\ entry = None

StatusCall ==
    /\ lastCall.op = "init"
    /\ FinishBook("status", [home |-> NoMeta],
                  SetStatus(Context, book, given.new, given.page))
    /\ UNCHANGED <<variant, username, given, pagedVars, site, prevCall, entry>>

SpecStatus == StatusInit /\ [][StatusCall]_vars

----------------------------------------------------------------------------
(* Claims about Book.status *)

\* the form is one the setter may submit for the new status
Wanted(form, new) ==
    \/ new = StatusNone /\ Contains(form.action, <<"/remove-book/">>)
    \/ /\ new # StatusNone
       /\ Contains(form.action, <<"/update-status">>)
       /\ Contains(form.action, <<"=">> \o Hyphenated(new))

WantedForms == { i \in DOMAIN given.tag.forms : Wanted(given.tag.forms[i], given.new) }

\* nothing was sent and the fragment is the one before the call
NothingDone == lastCall.sent = <<>> /\ book.tag = given.tag

\* the first request is the POST of the first wanted form
SubmittedFirstWanted ==
    /\ Len(Posts(lastCall)) = 1
    /\ lastCall.sent[1].verb = "POST"
    /\ \E i \in WantedForms :
          /\ \A j \in WantedForms : i <= j
          /\ lastCall.sent[1].path = given.tag.forms[i].action
          /\ lastCall.sent[1].data.authenticity_token = given.tag.forms[i].fields[1].value

\* the second and last request is the GET of the book page, whose main
\* element is the fragment now
Reloaded ==
    /\ Len(lastCall.sent) = 2
    /\ lastCall.sent[2] = GetRequest(BookPath)
    /\ book.tag = given.page.main
    /\ lastCall.err = None

\* C8 as stated: setting Book.status to the current status sends nothing;
\* setting another status submits exactly one rendered form (the
\* "/remove-book/" form for NONE, else the "/update-status" form whose action
\* holds "=" and the hyphenated status) and then reloads the book page; with
\* no such form it raises "No update status form", nothing sent, the fragment
\* unchanged.
C8_StatusSubmitsAndReloads ==
    lastCall.op = "status" =>
        IF given.new = given.tag.status THEN NothingDone /\ lastCall.err = None
        ELSE IF WantedForms = {} THEN NothingDone /\ lastCall.err = "No update status form"
        ELSE SubmittedFirstWanted /\ Reloaded

\* C8 amended: as stated, but the reload after the form is submitted happens
\* only when the fragment holds a link to "/books/..."; when it holds none the
\* setter raises "No self link" after the POST and leaves the fragment
\* unchanged.
C8_StatusSubmitsThenReloadsOrRaises ==
    lastCall.op = "status" =>
        IF given.new = given.tag.status THEN NothingDone /\ lastCall.err = None
        ELSE IF WantedForms = {} THEN NothingDone /\ lastCall.err = "No update status form"
        ELSE /\ SubmittedFirstWanted
             /\ IF given.tag.selfLink THEN Reloaded
                ELSE /\ Len(lastCall.sent) = 1
                     /\ lastCall.err = "No self link"
                     /\ book.tag = given.tag

\* C8 witness: of two forms for "read" the first is submitted, the page reloaded.
C8_Witness ==
    /\ lastCall.op = "status"
    /\ given.new = StatusRead
    /\ given.tag.status = StatusToRead
    /\ Len(given.tag.forms) = 2
    /\ given.tag.forms[1].action = UpdateAction(StatusRead)
    /\ given.tag.forms[2].action = UpdateAction(StatusRead)
    /\ given.tag.forms[1].fields[1].value = "f2"
    /\ given.tag.forms[2].fields[1].value = "f1"
    /\ SubmittedFirstWanted
    /\ Reloaded

----------------------------------------------------------------------------
(* A Book and the site behind it, over several calls *)

\* bound: the fetches of the book page after the one the Book was made from
MaxReloads == 2

\* the edition-info block of the site's revision rev
Edition(rev) == IF rev = 1 THEN "m1" ELSE "m2"

\* The book page (or listing pane) as the site renders it: the link of an
\* ownership transition exactly when the book is not in that state; the link
\* to "/books/..." and the edition-info block are there or not.
Render(s, stamp, selfLink, block) ==
    [stamp |-> stamp, selfLink |-> selfLink, status |-> StatusNone, forms |-> <<>>,
     owned |-> IF s.owned THEN {"remove-from-owned-link"} ELSE {"mark-as-owned-link"},
     edition |-> IF block THEN Edition(s.rev) ELSE None]

\* the site after the requests of a call: a pseudo-verb POST sets the ownership
RECURSIVE Served(_, _)
Served(s, sent) ==
    IF sent = <<>> THEN s
    ELSE LET r == Head(sent)
         IN  Served(IF r.verb = "POST" /\ "_method" \in DOMAIN r.data
                       THEN [s EXCEPT !.owned = (r.data["_method"] = "post")]
                       ELSE s,
                    Tail(sent))

\* Book.metadata, a cached_property: computed once, from the edition-info
\* block of the fragment or else of the editions page (Book._editions_page,
\* a cached_property too).  The value goes with the stamp of the fragment
\* that was current when its source was fetched.
Metadata(c, b, editions) ==
    IF b.metadata.has
       THEN BookReturn(c, b, [value |-> b.metadata.value, stamp |-> b.metadata.stamp])
       ELSE IF b.tag.edition # None
               THEN BookReturn(c, [b EXCEPT !.metadata = [has |-> TRUE, value |-> b.tag.edition,
                                                         stamp |-> b.tag.stamp]],
                               [value |-> b.tag.edition, stamp |-> b.tag.stamp])
       ELSE IF ~b.editions.has /\ ~b.tag.selfLink
               THEN BookRaise(c, b, "No self link")
       ELSE LET page == IF b.editions.has THEN b.editions
                        ELSE [has |-> TRUE, value |-> editions.edition, stamp |-> b.tag.stamp]
                c1 == IF b.editions.has THEN c
                      ELSE Html(Get(c, BookPath \o <<"editions">>), editions.meta)
            IN  BookReturn(c1, [b EXCEPT !.editions = page, !.metadata = page],
                           [value |-> page.value, stamp |-> page.stamp])

\* Book.reads(): the rows of Book._reads_page, a cached_property
Reads(c, b, page) ==
    IF b.reads.has
       THEN BookReturn(c, b, [value |-> b.reads.value, stamp |-> b.reads.stamp])
       ELSE IF ~b.tag.selfLink
               THEN BookRaise(c, b, "No self link")
               ELSE BookReturn(Html(Get(c, <<"read_instances", "new?book_id=b1">>), page.meta),
                               [b EXCEPT !.reads = [has |-> TRUE, value |-> page.edition,
                                                    stamp |-> b.tag.stamp]],
                               [value |-> page.edition, stamp |-> b.tag.stamp])

\* the meta tags every page of the site carries for a signed-in session
SiteMeta == [param |-> "authenticity_token", token |-> "t1"]

\* a Book made from a fragment the site rendered, by get_book() or paged(),
\* in a session that has signed in: the pages parsed so far have left their
\* parameter name and token, when they carried them
BookInit ==
    /\ variant = "package"
    /\ \E m \in ListingMetas, used \in BOOLEAN :
          /\ csrf_param = m.param
          /\ csrf_token = IF used THEN None ELSE m.token
    /\ spent = {}
    /\ lastCall = NoCall
    /\ username = "carol"
    /\ given = None
    /\ NoPaged
    /\ site \in [owned : BOOLEAN, rev : {1, 2}]
    /\ \E selfLink, block \in BOOLEAN : book = NewBook(Render(site, 0, selfLink, block))
    /\ prevCall = [op |-> "init", owned |-> FALSE, applied |-> FALSE, posts |-> 0,
                   err |-> None]
    /\ entry = None

\* the last call in short
Short(call) ==
    [op |-> call.op,
     owned |-> IF call.op = "owned" THEN call.args.owned ELSE FALSE,
     applied |-> IF call.op = "owned" THEN call.args.applied ELSE FALSE,
     posts |-> Len(SelectSeq(call.sent, LAMBDA r : r.verb = "POST")),
     err |-> call.err]

\* the pages the site in state s answers with: the book page (its main
\* element stamped as the next fetch of the fragment), the editions page and
\* the reads page
PageNow(s, selfLink, block, meta) ==
    [meta |-> meta, main |-> Render(s, book.tag.stamp + 1, selfLink, block),
     edition |-> Edition(s.rev)]

\* book.owned = owned, the home page and the book page carrying one of metas;
\* the site applies the POST it receives or turns it down (the response is
\* not looked at by post())
SetOwnedCall(metas) ==
    /\ \E owned, selfLink, block, applied \in BOOLEAN, home, meta \in metas :
          LET posted == SetOwned(Context, book, owned, home, PageNow(site, selfLink, block, meta))
              after  == IF applied THEN Served(site, posted.ctx.sent) ELSE site
              page   == PageNow(after, selfLink, block, meta)
              r      == SetOwned(Context, book, owned, home, page)
          IN  /\ r.book.tag.stamp <= MaxReloads
              /\ FinishBook("owned", [home |-> home, owned |-> owned, tag |-> book.tag,
                                      page |-> page, applied |-> applied], r)
              /\ site' = after
    /\ UNCHANGED <<variant, username, given, pagedVars, entry>>

BookSetOwned == SetOwnedCall({SiteMeta}) /\ UNCHANGED prevCall

\* book.reload()
BookReload ==
    /\ \E selfLink, block \in BOOLEAN :
          LET r == Reload(Context, book, PageNow(site, selfLink, block, SiteMeta))
          IN  /\ r.book.tag.stamp <= MaxReloads
              /\ FinishBook("reload", [home |-> NoMeta], r)
    /\ UNCHANGED <<variant, username, given, pagedVars, site, prevCall, entry>>

\* book.metadata
BookMetadata ==
    /\ FinishBook("metadata", [home |-> NoMeta],
                  Metadata(Context, book, PageNow(site, TRUE, TRUE, SiteMeta)))
    /\ UNCHANGED <<variant, username, given, pagedVars, site, prevCall, entry>>

\* book.reads()
BookReads ==
    /\ FinishBook("reads", [home |-> NoMeta],
                  Reads(Context, book, PageNow(site, TRUE, TRUE, SiteMeta)))
    /\ UNCHANGED <<variant, username, given, pagedVars, site, prevCall, entry>>

\* book.owned, read
BookOwned ==
    /\ FinishBook("owned?", [home |-> NoMeta],
                  BookReturn(Context, book, [value |-> Owned(book), stamp |-> book.tag.stamp]))
    /\ UNCHANGED <<variant, username, given, pagedVars, site, prevCall, entry>>

\* the site's data changes: another session edits the book
SiteChanges ==
    /\ site' = [site EXCEPT !.rev = 3 - @]
    /\ UNCHANGED <<apiVars, given, pagedVars, book, prevCall, entry>>

BookNext ==
    BookSetOwned \/ BookReload \/ BookMetadata \/ BookReads \/ BookOwned \/ SiteChanges

SpecBook == BookInit /\ [][BookNext]_vars

\* the ownership setter called again and again, the call before remembered
OwnedAgain == SetOwnedCall(ListingMetas) /\ prevCall' = Short(lastCall)

OwnedNext == OwnedAgain

SpecOwned == BookInit /\ [][OwnedNext]_vars

----------------------------------------------------------------------------
(* Claims on the ownership setter *)

\* the class of the link of the transition the call asked for
Requested(call) ==
    IF call.args.owned THEN "mark-as-owned-link" ELSE "remove-from-owned-link"

\* that link is rendered in the fragment the call found
Rendered(call) == Requested(call) \in call.args.tag.owned

\* the call sent nothing and left the fragment as it was
OwnedUntouched(call) == call.sent = <<>> /\ book.tag = call.args.tag

\* the call sent exactly one POST: the pseudo-verb POST of method() on the link
PostedPseudoVerb(call) ==
    /\ Len(Posts(call)) = 1
    /\ Posts(call)[1].path = OwnedLink(Requested(call)).href
    /\ "_method" \in DOMAIN Posts(call)[1].data
    /\ Posts(call)[1].data["_method"] = OwnedLink(Requested(call)).method

\* the POST was followed by one fetch of the book page, whose main element is
\* the fragment now
ReloadedAfterPost(call) ==
    /\ Len(call.sent) >= 2
    /\ call.sent[Len(call.sent) - 1].verb = "POST"
    /\ call.sent[Len(call.sent)] = GetRequest(BookPath)
    /\ book.tag = call.args.page.main
    /\ call.err = None

\* the call before asked for the same ownership
SameAsBefore(call) == prevCall.op = "owned" /\ prevCall.owned = call.args.owned

\* the call before left the fragment showing what the site holds: it sent no
\* POST, or its POST was applied and the reload after it took place
SettledBefore == prevCall.posts = 0 \/ (prevCall.applied /\ prevCall.err = None)

\* csrf() has no token to give: none stored and none on the home page
NoTokenFor(call) == ~Truthy(call.before.token) /\ ~Truthy(call.args.home.token)

----------------------------------------------------------------------------
(* Claims on what a Book's properties return *)

ReadOps == {"metadata", "reads", "owned?"}

\* C10: after any sequence of reads, mutations and reload() calls, a property
\* of a Book (metadata, reads(), owned) returns no value taken from a fragment
\* or cache fetched before the most recent fetch of the book's page.
C10_ReadsReflectLastFetch ==
    (lastCall.op \in ReadOps /\ lastCall.err = None) =>
        lastCall.ret.stamp = book.tag.stamp

----------------------------------------------------------------------------
(* DateAccuracy.  A date is a record of year, month and day; a text is the  *)
(* sequence of its space-separated pieces, a piece being a word or a run of *)
(* decimal digits.                                                         *)

\* DateAccuracy.YEAR, MONTH, DAY: an IntEnum numbered by auto()
YEAR == 1

MONTH == 2

DAY == 3

Accuracies == {YEAR, MONTH, DAY}

\* (None, None), as parse() returns for "No date"
NoDate == [year |-> 0, month |-> 0, day |-> 0]

NoAccuracy == 0

MonthNames == <<"January", "February", "March", "April", "May", "June", "July",
                "August", "September", "October", "November", "December">>

IsLeap(y) == (y % 4 = 0 /\ y % 100 # 0) \/ y % 400 = 0

DaysIn(y, m) ==
    IF m = 2 THEN (IF IsLeap(y) THEN 29 ELSE 28)
    ELSE IF m \in {4, 6, 9, 11} THEN 30 ELSE 31

\* what datetime.date accepts
IsDate(when) ==
    /\ when.year \in 1..9999
    /\ when.month \in 1..12
    /\ when.day \in 1..DaysIn(when.year, when.month)

Word(w) == [word |-> w, digits |-> <<>>]

Number(ds) == [word |-> "", digits |-> ds]

\* the decimal digits of n, without padding
RECURSIVE DigitsOf(_)
DigitsOf(n) == IF n < 10 THEN <<n>> ELSE Append(DigitsOf(n \div 10), n % 10)

\* zero-padding to a width
RECURSIVE Pad(_, _)
Pad(ds, width) == IF Len(ds) >= width THEN ds ELSE Pad(<<0>> \o ds, width)

\* the number a run of digits stands for
RECURSIVE ValueOfDigits(_)
ValueOfDigits(ds) ==
    IF ds = <<>> THEN 0
    ELSE 10 * ValueOfDigits(SubSeq(ds, 1, Len(ds) - 1)) + ds[Len(ds)]

\* the three patterns of parse() and unparse(), as their directives
PatternDay == <<"%d", "%B", "%Y">>

PatternMonth == <<"%B", "%Y">>

PatternYear == <<"%Y">>

PatternOf(accuracy) ==
    IF accuracy = DAY THEN PatternDay
    ELSE IF accuracy = MONTH THEN PatternMonth ELSE PatternYear

\* date.strftime, one directive: %d is two digits, %B the month's name, %Y
\* the year as the C library prints it (padded to four digits or not)
Format(when, directive, padded) ==
    IF directive = "%d" THEN Number(Pad(DigitsOf(when.day), 2))
    ELSE IF directive = "%B" THEN Word(MonthNames[when.month])
    ELSE Number(IF padded THEN Pad(DigitsOf(when.year), 4) ELSE DigitsOf(when.year))

Strftime(when, pattern, padded) ==
    [i \in 1..Len(pattern) |-> Format(when, pattern[i], padded)]

\* datetime.strptime, one directive against one piece: %d takes one or two
\* digits making 1..31, %B a month's name, %Y exactly four digits
Matches(piece, directive) ==
    IF directive = "%d"
       THEN Len(piece.digits) \in {1, 2} /\ ValueOfDigits(piece.digits) \in 1..31
    ELSE IF directive = "%B"
       THEN \E m \in 1..12 : piece.word = MonthNames[m]
    ELSE Len(piece.digits) = 4

\* the date strptime builds from the pieces: year 1900, month 1 and day 1
\* where the pattern has no directive for them
Parsed(text, pattern) ==
    LET at(dv) == CHOOSE i \in 1..Len(pattern) : pattern[i] = dv
        has(dv) == \E i \in 1..Len(pattern) : pattern[i] = dv
    IN  [year  |-> IF has("%Y") THEN ValueOfDigits(text[at("%Y")].digits) ELSE 1900,
         month |-> IF has("%B") THEN (CHOOSE m \in 1..12 : text[at("%B")].word = MonthNames[m])
                                    ELSE 1,
         day   |-> IF has("%d") THEN ValueOfDigits(text[at("%d")].digits) ELSE 1]

\* datetime.strptime(text, pattern) does not raise ValueError
Strptime(text, pattern) ==
    /\ Len(text) = Len(pattern)
    /\ \A i \in 1..Len(pattern) : Matches(text[i], pattern[i])
    /\ IsDate(Parsed(text, pattern))

NoDateText == <<Word("No"), Word("date")>>

\* DateAccuracy.parse
Parse(text) ==
    IF text = NoDateText THEN [ret |-> [when |-> NoDate, accuracy |-> NoAccuracy], err |-> None]
    ELSE IF Strptime(text, PatternDay)
       THEN [ret |-> [when |-> Parsed(text, PatternDay), accuracy |-> DAY], err |-> None]
    ELSE IF Strptime(text, PatternMonth)
       THEN [ret |-> [when |-> Parsed(text, PatternMonth), accuracy |-> MONTH], err |-> None]
    ELSE IF Strptime(text, PatternYear)
       THEN [ret |-> [when |-> Parsed(text, PatternYear), accuracy |-> YEAR], err |-> None]
    ELSE [ret |-> None, err |-> "Can't parse date"]

\* DateAccuracy.unparse
Unparse(when, accuracy, padded) ==
    IF when = NoDate THEN NoDateText ELSE Strftime(when, PatternOf(accuracy), padded)

----------------------------------------------------------------------------
(* Entry and Read.  An int | None argument is held as an integer, NoInt     *)
(* standing for None; str() and int() are the decimal conversions, on the  *)
(* numbers the model uses.                                                 *)

NoInt == -1

Numerals == <<"0", "1", "2", "3", "4", "5", "6", "7", "8", "9">>

\* str(n)
Str(n) == Numerals[n + 1]

\* int(s); ValueError when s is no numeral
IsNumeral(s) == \E n \in 0..9 : Numerals[n + 1] = s

IntOf(s) == CHOOSE n \in 0..9 : Numerals[n + 1] = s

\* the outcome of a call on an Entry: as of a call on the API, and the Entry
EntryReturn(c, e, v) == [ctx |-> c, ret |-> v, err |-> None, entry |-> e]

EntryRaise(c, e, x) == [ctx |-> c, ret |-> None, err |-> x, entry |-> e]

\* the cached_property _edit_page when not computed
NoEditPage == [has |-> FALSE, form |-> NoForm, deleteLink |-> FALSE]

\* Entry(sg, tag); of the fragment, whether its date column holds a link to
\* "/journal_entries/..."; fetches: history, the GETs of the edit page since
\* the last edit() that went through
NewEntry(editLink) == [editLink |-> editLink, editPage |-> NoEditPage, fetches |-> 0]

EditPath == "/journal_entries/e1/edit"

\* Entry._edit_page: the cached page, else html(get(self._edit_link)).main,
\* kept; _edit_link raises when the fragment has no such link
EditPage(c, e, page) ==
    IF e.editPage.has THEN EntryReturn(c, e, e.editPage)
    ELSE IF ~e.editLink THEN EntryRaise(c, e, "No entry edit page")
    ELSE EntryReturn(Html(Get(c, EditPath), page.meta),
                     [e EXCEPT !.editPage = page.main, !.fetches = @ + 1],
                     page.main)

\* the first input of the page named name, 0 when there is none
RECURSIVE FindInput(_, _, _)
FindInput(fields, name, i) ==
    IF i > Len(fields) THEN 0
    ELSE IF fields[i].type = "input" /\ fields[i].name = name THEN i
    ELSE FindInput(fields, name, i + 1)

\* Entry._edit_input: int(self._edit_page.find("input", {"name": name})["value"])
EditInput(c, e, name, page) ==
    LET p == EditPage(c, e, page)
        i == FindInput(p.ret.form.fields, name, 1)
        v == p.ret.form.fields[i].value
    IN  IF p.err # None THEN p
        ELSE IF i = 0 THEN EntryRaise(p.ctx, p.entry, "TypeError")
        ELSE IF v = Absent THEN EntryRaise(p.ctx, p.entry, "KeyError")
        ELSE IF ~IsNumeral(v) THEN EntryRaise(p.ctx, p.entry, "ValueError")
        ELSE EntryReturn(p.ctx, p.entry, IntOf(v))

PartOf(when, part) ==
    IF part = YEAR THEN when.year ELSE IF part = MONTH THEN when.month ELSE when.day

\* the loop "for part in DateAccuracy" of Entry.edit and Read.edit: the part
\* of the date when accuracy >= part, else ""
DateParts(when, accuracy, key) ==
    [k \in {key[part] : part \in Accuracies} |->
        LET part == CHOOSE q \in Accuracies : key[q] = k
        IN  IF accuracy >= part THEN PartOf(when, part) ELSE ""]

EntryKey == <<"journal_entry[year]", "journal_entry[month]", "journal_entry[day]">>

\* an override that is dropped when the number is 0
OverrideTruthy(name, n) == IF n # NoInt /\ n # 0 THEN (name :> Str(n)) ELSE EmptyDict

\* one optional override of Entry.edit
Override(name, n) == IF n # NoInt THEN (name :> Str(n)) ELSE EmptyDict

\* the data Entry.edit builds from its arguments
EditData(when, accuracy, percent, pages, pages_total) ==
    Override("journal_entry[percent_reached]", percent)
    @@ Override("journal_entry[pages_read_total]", pages_total)
    @@ Override("journal_entry[pages_read]", pages)
    @@ (IF when # NoDate THEN DateParts(when, accuracy, EntryKey) ELSE EmptyDict)

\* Entry.reload: del self._edit_page; AttributeError when it is not cached
EntryReload(c, e) ==
    IF ~e.editPage.has THEN EntryRaise(c, e, "AttributeError")
    ELSE EntryReturn(c, [e EXCEPT !.editPage = NoEditPage], None)

\* an edit() that keeps the cached page
EntryEditKeepsPage(c, e, when, accuracy, percent, pages, pages_total, page) ==
    LET p == EditPage(c, e, page)
        r == Form(p.ctx, p.ret.form, EditData(when, accuracy, percent, pages, pages_total),
                  FALSE, NoMeta)
    IN  IF p.err # None THEN p
        ELSE IF p.ret.form = NoForm THEN EntryRaise(p.ctx, p.entry, "AttributeError")
        ELSE EntryReturn(r.ctx, p.entry, None)

\* Entry.edit
EntryEdit(c, e, when, accuracy, percent, pages, pages_total, page) ==
    LET p == EditPage(c, e, page)
        r == Form(p.ctx, p.ret.form, EditData(when, accuracy, percent, pages, pages_total),
                  FALSE, NoMeta)
    IN  IF p.err # None THEN p
        ELSE IF p.ret.form = NoForm THEN EntryRaise(p.ctx, p.entry, "AttributeError")
        ELSE EntryReload(r.ctx, p.entry)

\* Entry.delete
EntryDelete(c, e, page, home) ==
    LET p == EditPage(c, e, page)
        r == Method(p.ctx, [method |-> "delete", href |-> "/journal_entries/e1"], home)
    IN  IF p.err # None THEN p
        ELSE IF ~p.ret.deleteLink THEN EntryRaise(p.ctx, p.entry, "No delete link")
        ELSE IF r.err # None THEN EntryRaise(r.ctx, p.entry, r.err)
        ELSE EntryReturn(r.ctx, p.entry, None)

\* the edit form of a journal entry as the site renders it: the hidden token,
\* the three counts, the three date selects and the button
EditFormOf(pages, total, percent, year, month, day) ==
    [action |-> "/journal_entries/e1",
     fields |-> << [type |-> "input", name |-> "authenticity_token", value |-> "f1"],
                   [type |-> "input", name |-> "journal_entry[pages_read]", value |-> pages],
                   [type |-> "input", name |-> "journal_entry[pages_read_total]", value |-> total],
                   [type |-> "input", name |-> "journal_entry[percent_reached]", value |-> percent],
                   [type |-> "select", name |-> "journal_entry[year]", value |-> year],
                   [type |-> "select", name |-> "journal_entry[month]", value |-> month],
                   [type |-> "select", name |-> "journal_entry[day]", value |-> day],
                   [type |-> "button", name |-> "commit", value |-> Absent] >>]

\* a form with one more field under the name of one it holds already, as a
\* check box rendered after the hidden input of its name
WithSecondField(form) ==
    [form EXCEPT !.fields = Append(@, [type |-> "input", name |-> "journal_entry[pages_read]",
                                       value |-> "4"])]

SingleEditForms ==
    { EditFormOf(p, "9", q, "2024", m, d) :
         p \in {Absent, "3"}, q \in {"0", "5"}, m \in {NoOption, "3"}, d \in {NoOption, "5"} }

EditForms == SingleEditForms \cup {WithSecondField(form) : form \in SingleEditForms}

\* the main element of the edit page
EditPages == [has : {TRUE}, form : EditForms \cup {NoForm}, deleteLink : BOOLEAN]

----------------------------------------------------------------------------
(* Read, Book.path and Book._update_progress *)

\* the data-method links of a read's row
ReadLink(method) ==
    [method |-> method,
     href |-> IF method = "get" THEN "/read_instances/r1/edit" ELSE "/read_instances/r1"]

\* a delete() that takes whichever data-method link the row holds
ReadDeleteAnyLink(c, links, home) ==
    IF links = {} THEN Raise(c, "TypeError")
    ELSE Method(c, ReadLink(CHOOSE m \in links : TRUE), home)

\* Read.delete: method(self._tag.find("a", {"data-method": "delete"})), whose
\* link["data-method"] raises TypeError on None before csrf() is called
ReadDelete(c, links, home) ==
    IF "delete" \notin links THEN Raise(c, "TypeError")
    ELSE Method(c, ReadLink("delete"), home)

ReadStartKey == <<"read_instance[start_year]", "read_instance[start_month]",
                  "read_instance[start_day]">>

ReadEndKey == <<"read_instance[year]", "read_instance[month]", "read_instance[day]">>

\* the form of the panel that edits a read
ReadForm ==
    [action |-> "/read_instances/r1",
     fields |-> << [type |-> "input", name |-> "_method", value |-> "patch"],
                   [type |-> "select", name |-> "read_instance[start_year]", value |-> "2023"],
                   [type |-> "select", name |-> "read_instance[year]", value |-> NoOption] >>]

\* Read.edit
ReadEdit(c, links, start, start_accuracy, end, end_accuracy, home, panel) ==
    LET m    == Method(c, ReadLink("get"), home)
        c1   == Html(m.ctx, panel.meta)
        data == (IF start # NoDate THEN DateParts(start, start_accuracy, ReadStartKey)
                                   ELSE EmptyDict)
                @@ (IF end # NoDate THEN DateParts(end, end_accuracy, ReadEndKey)
                                    ELSE EmptyDict)
    IN  IF "get" \notin links THEN Raise(c, "TypeError")
        ELSE IF m.err # None THEN m
        ELSE IF panel.form = NoForm THEN Raise(c1, "AttributeError")
        ELSE Form(c1, panel.form, data, TRUE, home)

\* Book.path
Path(c, b) ==
    IF b.tag.selfLink THEN BookReturn(c, b, BookPath) ELSE BookRaise(c, b, "No self link")

\* self._tag.find("form", action="/update-progress"): 0 when there is none
RECURSIVE FindProgressForm(_, _)
FindProgressForm(forms, i) ==
    IF i > Len(forms) THEN 0
    ELSE IF forms[i].action = ProgressAction THEN i ELSE FindProgressForm(forms, i + 1)

\* Book._update_progress, behind the setters pages_read and percent_read;
\* form(None, ...) raises AttributeError on form.find_all
UpdateProgress(c, b, unit, value, home) ==
    LET i == FindProgressForm(b.tag.forms, 1)
        data == ("read_status[progress_number]" :> Str(value))
                @@ ("read_status[progress_type]" :> unit)
        r == Form(c, b.tag.forms[i], data, TRUE, home)
    IN  IF i = 0 THEN BookRaise(c, b, "AttributeError")
        ELSE IF r.err # None THEN BookRaise(r.ctx, b, r.err)
        ELSE BookReturn(r.ctx, b, None)

\* the call's result becomes the state
FinishEntry(op, args, r) ==
    /\ Finish(op, args, r)
    /\ entry' = r.entry

----------------------------------------------------------------------------
(* One call on a Book, an Entry, a Read or DateAccuracy, on fragments and   *)
(* pages that hold the markup the call looks for or do not                 *)

\* bound: the pieces of a text
MaxPieces == 3

\* the texts parse() is given, by their pieces
Texts ==
    UNION { [1..n -> {Word("No"), Word("date"), Word("March"), Word("Mar"), Number(<<5>>),
                      Number(<<0, 5>>), Number(<<3, 2>>), Number(<<2, 0, 2, 4>>),
                      Number(<<9, 9, 9>>)}] : n \in 1..MaxPieces }

CallsInit ==
    /\ CsrfInit
    /\ variant = "package"
    /\ username = "carol"
    /\ given = None
    /\ NoPaged
    /\ NoBook

\* book.path
CallPath ==
    /\ lastCall.op = "init"
    /\ \E tag \in StatusTags :
          FinishBook("path", [home |-> NoMeta, tag |-> tag], Path(Context, NewBook(tag)))
    /\ UNCHANGED <<variant, username, given, pagedVars, site, prevCall, entry>>

\* book.status = new
CallStatus ==
    /\ lastCall.op = "init"
    /\ \E tag \in StatusTags, new \in Statuses :
          FinishBook("status", [home |-> NoMeta, tag |-> tag, new |-> new],
                     SetStatus(Context, NewBook(tag), new,
                               [meta |-> NoMeta, main |-> ReloadedTag]))
    /\ UNCHANGED <<variant, username, given, pagedVars, site, prevCall, entry>>

\* book.pages_read = value, book.percent_read = value
CallProgress ==
    /\ lastCall.op = "init"
    /\ \E tag \in StatusTags, unit \in {"pages", "percentage"}, value \in {0, 7},
          home \in ListingMetas :
          FinishBook("progress", [home |-> home, tag |-> tag, unit |-> unit, value |-> value],
                     UpdateProgress(Context, NewBook(tag), unit, value, home))
    /\ UNCHANGED <<variant, username, given, pagedVars, site, prevCall, entry>>

\* entry.delete()
CallEntryDelete ==
    /\ lastCall.op = "init"
    /\ \E editLink \in BOOLEAN, main \in EditPages, meta, home \in ListingMetas :
          FinishEntry("entry.delete", [home |-> home, editLink |-> editLink, page |-> main],
                      EntryDelete(Context, NewEntry(editLink),
                                  [meta |-> meta, main |-> main], home))
    /\ UNCHANGED <<variant, username, given, pagedVars, book, site, prevCall>>

\* read.delete()
CallReadDelete ==
    /\ lastCall.op = "init"
    /\ \E links \in SUBSET {"get", "delete"}, home \in ListingMetas :
          Finish("read.delete", [home |-> home, links |-> links],
                 ReadDelete(Context, links, home))
    /\ UNCHANGED <<variant, username, given, pagedVars, bookVars>>

\* read.edit(...)
CallReadEdit ==
    /\ lastCall.op = "init"
    /\ \E links \in SUBSET {"get", "delete"}, home \in ListingMetas,
          start, end \in {NoDate, [year |-> 2024, month |-> 3, day |-> 5]},
          accuracy \in Accuracies,
          panel \in [meta : ListingMetas, form : {NoForm, ReadForm}] :
          Finish("read.edit", [home |-> home, links |-> links],
                 ReadEdit(Context, links, start, accuracy, end, DAY, home, panel))
    /\ UNCHANGED <<variant, username, given, pagedVars, bookVars>>

\* DateAccuracy.parse(text)
CallParse ==
    /\ lastCall.op = "init"
    /\ \E text \in Texts :
          Finish("parse", [home |-> NoMeta, text |-> text],
                 [ctx |-> Context, ret |-> Parse(text).ret, err |-> Parse(text).err])
    /\ UNCHANGED <<variant, username, given, pagedVars, bookVars>>

CallsNext ==
    \/ CallPath \/ CallStatus \/ CallProgress \/ CallEntryDelete
    \/ CallReadDelete \/ CallReadEdit \/ CallParse

SpecCalls == CallsInit /\ [][CallsNext]_vars

----------------------------------------------------------------------------
(* Claims on missing markup *)

\* the text matches one of the three date patterns
MatchesSomePattern(text) ==
    Strptime(text, PatternDay) \/ Strptime(text, PatternMonth) \/ Strptime(text, PatternYear)

\* the markup the last call looks for is not there
MarkupAbsent(call) ==
    \/ call.op = "path" /\ ~call.args.tag.selfLink
    \/ /\ call.op = "status"
       /\ call.args.tag.status # call.args.new
       /\ \A i \in DOMAIN call.args.tag.forms :
             ~IsStatusForm(call.args.tag.forms[i], call.args.new)
    \/ /\ call.op = "progress"
       /\ \A i \in DOMAIN call.args.tag.forms :
             call.args.tag.forms[i].action # ProgressAction
    \/ call.op = "entry.delete" /\ ~call.args.page.deleteLink
    \/ call.op = "read.delete" /\ "delete" \notin call.args.links
    \/ call.op = "read.edit" /\ "get" \notin call.args.links
    \/ /\ call.op = "parse"
       /\ call.args.text # NoDateText
       /\ ~MatchesSomePattern(call.args.text)

----------------------------------------------------------------------------
(* Two paged() generators of one StoryGraphAPI, advanced in any order *)

\* a site whose pages are full, and two generators: one created on path 1,
\* the other on any path
TwoPagedInit ==
    /\ CsrfInit
    /\ variant = "package"
    /\ username = None
    /\ given = None
    /\ srv \in [1..NumPages -> {l \in Listings : l.items = MaxItems}]
    /\ \E q \in 1..NumPages : gen = [NoGens EXCEPT ![1] = NewGen(1), ![2] = NewGen(q)]
    /\ NoBook

SpecTwoPaged == TwoPagedInit /\ [][PagedNext]_vars

\* the path a generator was created on
StartOf(g) == IF g.fetched = <<>> THEN g.path ELSE g.fetched[1]

\* a generator has yielded, so far or in all, what it yields when consumed alone
YieldsAsAlone(g) ==
    /\ IsPrefix(g.yielded, Expected(StartOf(g), MaxFetches))
    /\ g.pc = "done" => g.yielded = Expected(StartOf(g), MaxFetches)

\* a step of one generator leaves the other as it was: its next path, the
\* page it is on and its place in that page
OthersUntouched ==
    \A g \in Gens : gen'[g] # gen[g] => \A h \in Gens \ {g} : gen'[h] = gen[h]

\* C12: two paged() generators of one StoryGraphAPI, advanced in any
\* interleaved order, each yield the sequence of items they yield when consumed
\* alone, and a step of one never changes the next path or the remaining
\* items of the other.
C12_GeneratorsIndependent ==
    /\ [](\A g \in Gens : YieldsAsAlone(gen[g]))
    /\ [][OthersUntouched]_vars

\* both generators are in the middle of different pages, each having yielded
C12_Witness ==
    /\ gen[1].pc = "items" /\ gen[2].pc = "items"
    /\ gen[1].cur # gen[2].cur
    /\ gen[1].yielded # <<>> /\ gen[2].yielded # <<>>
    /\ Len(gen[1].fetched) = 2

----------------------------------------------------------------------------
(* One Entry.edit on the edit pages of a bounded shape *)

EditDates == {NoDate, [year |-> 2023, month |-> 11, day |-> 9]}

EditInit ==
    /\ CsrfInit
    /\ variant = "package"
    /\ username = "carol"
    /\ given = None
    /\ NoPaged
    /\ book = None /\ site = None /\ prevCall = None
    /\ entry \in {NewEntry(editLink) : editLink \in BOOLEAN}

\* entry.edit(when, accuracy, percent, pages, pages_total)
EditCall ==
    /\ lastCall.op = "init"
    /\ \E when \in EditDates, accuracy \in Accuracies, percent, pages, pages_total \in {NoInt, 0, 7},
          main \in EditPages :
          FinishEntry("entry.edit",
                      [home |-> NoMeta, when |-> when, accuracy |-> accuracy,
                       percent |-> percent, pages |-> pages, pages_total |-> pages_total,
                       page |-> main],
                      EntryEdit(Context, entry, when, accuracy, percent, pages, pages_total,
                                [meta |-> SiteMeta, main |-> main]))
    /\ UNCHANGED <<variant, username, given, pagedVars, book, site, prevCall>>

SpecEdit == EditInit /\ [][EditCall]_vars

----------------------------------------------------------------------------
(* Claims on Entry.edit *)

\* the keys the caller's arguments override
Overridden(args) ==
    (IF args.when # NoDate THEN {EntryKey[part] : part \in Accuracies} ELSE {})
    \cup (IF args.pages # NoInt THEN {"journal_entry[pages_read]"} ELSE {})
    \cup (IF args.pages_total # NoInt THEN {"journal_entry[pages_read_total]"} ELSE {})
    \cup (IF args.percent # NoInt THEN {"journal_entry[percent_reached]"} ELSE {})

\* the date parts are posted down to the accuracy, the finer ones as ""
DatePosted(args, data) ==
    args.when # NoDate =>
        \A part \in Accuracies :
            IF part <= args.accuracy
               THEN data[EntryKey[part]] = PartOf(args.when, part)
               ELSE data[EntryKey[part]] = ""

\* a count that is not None is posted as its decimal text, 0 included
CountPosted(n, name, data) == n # NoInt => data[name] = Str(n)

\* the fields the caller does not override are posted with the value the
\* form renders for them: the value attribute ("" without one), the value of
\* the selected option; a select without a selected option is not posted;
\* firstOnly: of the fields of one name, this is asked of the first visited
DefaultsPosted(args, form, data, firstOnly) ==
    \A i \in DOMAIN form.fields :
        LET f == form.fields[i]
        IN  (f.name \notin Overridden(args) /\ (firstOnly => FirstOfName(form.fields, i))) =>
               IF Contributes(f)
                  THEN f.name \in DOMAIN data /\ data[f.name] = Contributed(f)
                  ELSE \/ f.name \notin DOMAIN data
                       \/ \E j \in DOMAIN form.fields :
                             Contributes(form.fields[j]) /\ form.fields[j].name = f.name

\* what the caller passes is posted, to the form's action, and no name beyond
\* the caller's and the form's
OverridesPosted(args, form, post) ==
    /\ post.path = form.action
    /\ Overridden(args) \subseteq DOMAIN post.data
    /\ DatePosted(args, post.data)
    /\ CountPosted(args.pages, "journal_entry[pages_read]", post.data)
    /\ CountPosted(args.pages_total, "journal_entry[pages_read_total]", post.data)
    /\ CountPosted(args.percent, "journal_entry[percent_reached]", post.data)
    /\ DOMAIN post.data \subseteq
          Overridden(args) \cup {form.fields[i].name : i \in DOMAIN form.fields}

Edited == lastCall.op = "entry.edit" /\ lastCall.err = None

\* C13 as stated: Entry.edit overrides only what the caller passes: with a
\* date and an accuracy it posts the parts of the date no finer than the
\* accuracy and "" for the finer parts, with when=None it overrides no date
\* field; pages, pages_total and percent are overridden only when not None, 0
\* included; every field not overridden is posted with the value rendered in
\* the form.
C13_EditPostsEveryDefault ==
    Edited =>
        /\ Len(Posts(lastCall)) = 1
        /\ OverridesPosted(lastCall.args, lastCall.args.page.form, Posts(lastCall)[1])
        /\ DefaultsPosted(lastCall.args, lastCall.args.page.form, Posts(lastCall)[1].data, FALSE)

\* C13 amended: as stated, but of the fields not overridden that share a name
\* only the first one form() visits (inputs, then selects, then buttons) is
\* posted with its rendered value, and a select without a selected option is
\* not posted.
C13_EditPostsFirstDefault ==
    Edited =>
        /\ Len(Posts(lastCall)) = 1
        /\ OverridesPosted(lastCall.args, lastCall.args.page.form, Posts(lastCall)[1])
        /\ DefaultsPosted(lastCall.args, lastCall.args.page.form, Posts(lastCall)[1].data, TRUE)

\* an edit to month accuracy with pages=0: the year and month are posted, the
\* day as "" in place of the selected "5", pages_read as "0", and the percent
\* as rendered
C13_Witness ==
    /\ lastCall.op = "entry.edit" /\ lastCall.err = None
    /\ lastCall.args.when # NoDate /\ lastCall.args.accuracy = MONTH
    /\ lastCall.args.pages = 0 /\ lastCall.args.percent = NoInt
    /\ lastCall.args.page.form.fields[7].value = "5"
    /\ Posts(lastCall)[1].data["journal_entry[day]"] = ""
    /\ Posts(lastCall)[1].data["journal_entry[month]"] = 11
    /\ Posts(lastCall)[1].data["journal_entry[pages_read]"] = "0"
    /\ Posts(lastCall)[1].data["journal_entry[percent_reached]"] = "5"

----------------------------------------------------------------------------
(* An Entry read and edited over several calls, and the site behind it *)

\* the edit page the site answers with: the form filled from what it holds,
\* or a page without the form
EditPageOf(s, withForm) ==
    [has |-> TRUE,
     form |-> IF withForm
                 THEN EditFormOf(Str(s.pages), "9", Str(s.percent), "2024", "3", "5")
                 ELSE NoForm,
     deleteLink |-> TRUE]

\* the site after the requests of a call: the POST of the edit form sets the counts
RECURSIVE EntryServed(_, _)
EntryServed(s, sent) ==
    IF sent = <<>> THEN s
    ELSE LET r == Head(sent)
         IN  EntryServed(IF r.verb = "POST"
                            THEN [pages |-> IntOf(r.data["journal_entry[pages_read]"]),
                                  percent |-> IntOf(r.data["journal_entry[percent_reached]"])]
                            ELSE s,
                         Tail(sent))

EntryInit ==
    /\ CsrfInit
    /\ variant = "package"
    /\ username = "carol"
    /\ given = None
    /\ NoPaged
    /\ book = None
    /\ site \in [pages : {0, 3, 7}, percent : {0, 5}]
    /\ prevCall = Short(NoCall)
    /\ entry \in {NewEntry(editLink) : editLink \in BOOLEAN}

\* entry.pages, entry.pages_total, entry.percent, read
EntryRead ==
    /\ \E name \in {"journal_entry[pages_read]", "journal_entry[pages_read_total]",
                    "journal_entry[percent_reached]"},
          withForm \in BOOLEAN :
          FinishEntry("entry.read", [home |-> NoMeta, name |-> name],
                      EditInput(Context, entry, name,
                                [meta |-> SiteMeta, main |-> EditPageOf(site, withForm)]))
    /\ prevCall' = Short(lastCall)
    /\ UNCHANGED <<variant, username, given, pagedVars, book, site>>

\* entry.edit(...), also behind the setters when, pages, pages_total and
\* percent; an edit that went through starts a new count of fetches
EntryEditCall ==
    /\ \E when \in EditDates, percent \in {NoInt, 0}, pages \in {NoInt, 0, 7},
          withForm \in BOOLEAN :
          LET r == EntryEdit(Context, entry, when, DAY, percent, pages, NoInt,
                             [meta |-> SiteMeta, main |-> EditPageOf(site, withForm)])
          IN  /\ Finish("entry.edit", [home |-> NoMeta, pages |-> pages, percent |-> percent], r)
              /\ entry' = IF r.err = None THEN [r.entry EXCEPT !.fetches = 0] ELSE r.entry
              /\ site' = EntryServed(site, r.ctx.sent)
    /\ prevCall' = Short(lastCall)
    /\ UNCHANGED <<variant, username, given, pagedVars, book>>

EntryNext == EntryRead \/ EntryEditCall

SpecEntry == EntryInit /\ [][EntryNext]_vars

----------------------------------------------------------------------------
(* Claims on the edit-page cache of an Entry *)

\* what the site holds under the name of an input
SiteValue(name) ==
    IF name = "journal_entry[pages_read]" THEN site.pages
    ELSE IF name = "journal_entry[percent_reached]" THEN site.percent ELSE 9

\* the last call is the first read after an edit that went through
ReadAfterEdit ==
    /\ lastCall.op = "entry.read"
    /\ prevCall.op = "entry.edit" /\ prevCall.err = None

\* C14: every Entry.edit that goes through invalidates the cached edit page:
\* between two edits the edit page is fetched at most once however often
\* pages, pages_total or percent are read, and the first read of one of them
\* after an edit fetches the edit page again and returns what the site holds
\* then, not the value from before the edit.
C14_EditInvalidatesCache ==
    /\ entry.fetches <= 1
    /\ ReadAfterEdit =>
          /\ lastCall.sent = <<GetRequest(EditPath)>>
          /\ lastCall.err = None => lastCall.ret = SiteValue(lastCall.args.name)

\* pages was read as 3, set to 7 by an edit, and read again as 7 from a page
\* fetched anew
C14_Witness ==
    /\ ReadAfterEdit
    /\ prevCall.posts = 1
    /\ lastCall.args.name = "journal_entry[pages_read]"
    /\ lastCall.err = None /\ lastCall.ret = 7
    /\ lastCall.sent = <<GetRequest(EditPath)>>
    /\ entry.fetches = 1

----------------------------------------------------------------------------
(* Claims on csrf() of the single-file script and on the key method() posts *)

\* the call was made on the script with no token stored
ScriptNoToken(call) ==
    /\ variant = "script"
    /\ NeedsToken(call)
    /\ ~Truthy(call.before.token)

\* C15: in the single-file script, csrf() called while no token is stored
\* fetches the home page "/", and whenever that page carries a csrf-token meta
\* tag (with a token in it) the call returns that token, so that a protected
\* submission made with no page parsed since the last one succeeds too.
C15_ScriptTakesHomeToken ==
    (ScriptNoToken(lastCall) /\ Truthy(lastCall.args.home.token)) =>
        FetchedAndReturned(lastCall, lastCall.args.home.token)

\* C17: every POST sent by method() carries its CSRF token under the
\* csrf-param name harvested from the site, never under a null key, also when
\* method() is called with no token or no parameter name stored and csrf()
\* fetches and parses the home page during the call.
C17_NeverNullKey ==
    lastCall.op = "method" =>
        \A i \in 1..Len(Posts(lastCall)) :
            LET post == Posts(lastCall)[i]
            IN  /\ None \notin DOMAIN post.data
                /\ lastCall.args.home.param # None =>
                      lastCall.args.home.param \in DOMAIN post.data

----------------------------------------------------------------------------
(* DateAccuracy.parse and DateAccuracy.unparse on dates and texts *)

DatesInit ==
    /\ CsrfInit
    /\ variant = "package"
    /\ username = None
    /\ given = None
    /\ NoPaged
    /\ NoBook

\* DateAccuracy.parse(DateAccuracy.unparse(when, accuracy)); the C library
\* behind strftime pads %Y to four digits or does not
DatesRoundTrip ==
    /\ lastCall.op = "init"
    /\ \E when \in {NoDate} \cup { d \in [year : {999, 2024}, month : {2, 3, 12},
                                           day : {1, 5, 29, 31}] : IsDate(d) },
          accuracy \in Accuracies, padded \in BOOLEAN :
          LET text == Unparse(when, accuracy, padded)
          IN  Finish("date.roundtrip",
                     [home |-> NoMeta, when |-> when, accuracy |-> accuracy, text |-> text],
                     [ctx |-> Context, ret |-> Parse(text).ret, err |-> Parse(text).err])
    /\ UNCHANGED <<variant, username, given, pagedVars, bookVars>>

\* DateAccuracy.parse(text)
DatesParse ==
    /\ lastCall.op = "init"
    /\ \E text \in Texts :
          Finish("date.parse", [home |-> NoMeta, text |-> text],
                 [ctx |-> Context, ret |-> Parse(text).ret, err |-> Parse(text).err])
    /\ UNCHANGED <<variant, username, given, pagedVars, bookVars>>

DatesNext == DatesRoundTrip \/ DatesParse

SpecDates == DatesInit /\ [][DatesNext]_vars

----------------------------------------------------------------------------
(* Claims on DateAccuracy *)

\* a date cut to an accuracy: the day 1 for MONTH, the month and the day 1 for YEAR
Truncated(when, accuracy) ==
    [year  |-> when.year,
     month |-> IF accuracy = YEAR THEN 1 ELSE when.month,
     day   |-> IF accuracy = DAY THEN when.day ELSE 1]

\* the finest accuracy whose pattern the text matches
FinestMatch(text) ==
    CHOOSE a \in Accuracies :
        /\ Strptime(text, PatternOf(a))
        /\ \A b \in Accuracies : Strptime(text, PatternOf(b)) => b <= a

\* C16: parse and unparse round-trip: for every date d and accuracy a,
\* parse(unparse(d, a)) returns (d truncated to a, a), and
\* parse(unparse(None, a)) returns (None, None); a text that parses is
\* classified at the finest accuracy whose pattern it matches.
C16_ParseInvertsUnparse ==
    /\ lastCall.op = "date.roundtrip" =>
          /\ lastCall.err = None
          /\ lastCall.ret = IF lastCall.args.when = NoDate
                               THEN [when |-> NoDate, accuracy |-> NoAccuracy]
                               ELSE [when |-> Truncated(lastCall.args.when, lastCall.args.accuracy),
                                     accuracy |-> lastCall.args.accuracy]
    /\ (lastCall.op = "date.parse" /\ lastCall.err = None
            /\ lastCall.args.text # NoDateText) =>
          lastCall.ret.accuracy = FinestMatch(lastCall.args.text)

----------------------------------------------------------------------------
(* Claims on what html() does to the stored CSRF state *)

\* C18: html() changes the stored CSRF state only from what the parsed page
\* carries: a page with a csrf-token (csrf-param) meta tag replaces the stored
\* token (parameter name) with its value, a page without the tag leaves it
\* as it was; a token csrf() returns is the token of the most recently parsed
\* page that carried one; and a call in which no response is given to html()
\* leaves the parameter name alone and the token as it was, or none when
\* csrf() handed it out.
C18_HtmlFrame ==
    /\ lastCall.op = "html" =>
          /\ csrf_token = IF lastCall.args.home.token # None
                             THEN lastCall.args.home.token ELSE lastCall.before.token
          /\ csrf_param = IF lastCall.args.home.param # None
                             THEN lastCall.args.home.param ELSE lastCall.before.param
    /\ \A i \in 1..Len(lastCall.events) :
          lastCall.events[i].e = "ret" =>
              lastCall.events[i].token =
                  LastParsed(lastCall.before.parsed, SubSeq(lastCall.events, 1, i - 1))
    /\ (lastCall.op \in ApiOps /\ (variant = "script" \/ lastCall.sent = Posts(lastCall))) =>
          /\ csrf_param = lastCall.before.param
          /\ csrf_token = IF Returned(lastCall) # <<>> THEN None ELSE lastCall.before.token

\* form(csrf=True) sends the token of the page parsed last, t2 after t1,
\* without a fetch, and its own response leaves no token behind
C18_Witness ==
    /\ lastCall.op = "form" /\ lastCall.args.csrf
    /\ lastCall.before.parsed = "t2"
    /\ "t1" \in lastCall.before.spent
    /\ Len(lastCall.sent) = 1
    /\ lastCall.sent[1].header = "t2"
    /\ csrf_token = None

====
